---------------------------- MODULE Spec2Model ----------------------------
(***************************************************************************)
(* Edwards448 ("Goldilocks") extended points, src/curve/edwards/extended.rs *)
(*                                                                         *)
(* The curve is x^2 + y^2 = 1 + d x^2 y^2 with d = -39081.  The program     *)
(* works over GF(2^448 - 2^224 - 1); the model keeps d and every formula of *)
(* the source and runs them over GF(23), where the curve has the same shape *)
(* as Edwards448: p = 3 (mod 4), d is a non-square, the group has order     *)
(* 4 * l with l = 7 prime and l = 3 (mod 4), and the group is cyclic.       *)
(* FieldElement, Scalar, the twisted curve, Elligator2 and iso448 are not   *)
(* part of extended.rs; they are modelled from their contracts.             *)
(***************************************************************************)
EXTENDS Integers, Sequences, FiniteSets, TLC

VARIABLES
    pc,      \* the last call the caller made ("start" before any)
    p, q, r, \* ExtendedPoint operands held by the caller
    s, t,    \* Scalar operands held by the caller
    bytes,   \* a CompressedEdwardsY held by the caller
    okm,     \* the answer of the caller's expander: an error or its bytes
    out,     \* the ExtendedPoint returned by the last call
    tw,      \* the TwistedExtendedPoint returned by to_twisted / variable_base
    enc,     \* the CompressedEdwardsY returned by compress
    dec,     \* the CtOption<ExtendedPoint> returned by decompress
    flag     \* the bool returned by is_on_curve / is_torsion_free

vars == <<pc, p, q, r, s, t, bytes, okm, out, tw, enc, dec, flag>>

(***************************************************************************)
(* Bounds of the model.                                                    *)
(***************************************************************************)
\* Operand points are the tuples (X, Y, Z, T) accepted by is_on_curve with
\* Z <= MaxZ; results of operations carry any Z.
MaxZ == 2

(***************************************************************************)
(* FieldElement: GF(p), crate::field.                                      *)
(***************************************************************************)
FIELD_MODULUS == 23

Field == 0 .. (FIELD_MODULUS - 1)

ZERO == 0

ONE == 1

fadd(a, b) == (a + b) % FIELD_MODULUS

fsub(a, b) == (a - b + FIELD_MODULUS) % FIELD_MODULUS

fmul(a, b) == (a * b) % FIELD_MODULUS

fneg(a) == (FIELD_MODULUS - a) % FIELD_MODULUS

square(a) == fmul(a, a)

RECURSIVE fpow(_, _)
fpow(a, e) ==
    IF e = 0 THEN 1
    ELSE LET h == fpow(a, e \div 2)
         IN  IF e % 2 = 0 THEN fmul(h, h) ELSE fmul(fmul(h, h), a)

\* invert: a^(p-2); the inverse of zero is zero.
InverseTable == [a \in Field |-> fpow(a, FIELD_MODULUS - 2)]

invert(a) == InverseTable[a]

\* is_negative: the least significant bit of the canonical encoding.
is_negative(a) == a % 2

\* a = 1, d = -39081
EDWARDS_D == (-39081) % FIELD_MODULUS

(***************************************************************************)
(* subtle::Choice and conditional selection.                               *)
(***************************************************************************)
Choice(b) == IF b THEN 1 ELSE 0

conditional_negate(a, choice) == IF choice = 1 THEN fneg(a) ELSE a

(***************************************************************************)
(* ExtendedPoint.                                                          *)
(***************************************************************************)
Pt(x, y, z, tt) == [X |-> x, Y |-> y, Z |-> z, T |-> tt]

ExtendedPoints == [X : Field, Y : Field, Z : Field, T : Field]

conditional_select(a, b, choice) ==
    [X |-> IF choice = 1 THEN b.X ELSE a.X,
     Y |-> IF choice = 1 THEN b.Y ELSE a.Y,
     Z |-> IF choice = 1 THEN b.Z ELSE a.Z,
     T |-> IF choice = 1 THEN b.T ELSE a.T]

\* subtle's provided method: *self = Self::conditional_select(self, other, choice)
conditional_assign(self, other, choice) == conditional_select(self, other, choice)

\* ct_eq that compares the X coordinates only.
ct_eq_x_only(self, other) ==
    LET XZ == fmul(self.X, other.Z)
        ZX == fmul(self.Z, other.X)
    IN  XZ = ZX

ct_eq(self, other) ==
    LET XZ == fmul(self.X, other.Z)
        ZX == fmul(self.Z, other.X)
        YZ == fmul(self.Y, other.Z)
        ZY == fmul(self.Z, other.Y)
    IN  (XZ = ZX) /\ (YZ = ZY)

IDENTITY == Pt(ZERO, ONE, ONE, ZERO)

is_identity(self) == ct_eq(self, IDENTITY)

\* add with the signs of dT1T2 exchanged between X and Y.
add_sign_slip(self, other) ==
    LET aXX == fmul(self.X, other.X)
        dTT == fmul(fmul(EDWARDS_D, self.T), other.T)
        ZZ  == fmul(self.Z, other.Z)
        YY  == fmul(self.Y, other.Y)
        x_1 == fadd(fmul(self.X, other.Y), fmul(self.Y, other.X))
    IN  Pt(fmul(x_1, fadd(ZZ, dTT)),
           fmul(fsub(YY, aXX), fsub(ZZ, dTT)),
           fmul(fsub(ZZ, dTT), fadd(ZZ, dTT)),
           fmul(fsub(YY, aXX), x_1))

\* add with the twisted curve's d - 1, a square, in place of d.
add_with_square_d(self, other) ==
    LET aXX == fmul(self.X, other.X)
        dTT == fmul(fmul(fsub(EDWARDS_D, ONE), self.T), other.T)
        ZZ  == fmul(self.Z, other.Z)
        YY  == fmul(self.Y, other.Y)
        x_1 == fadd(fmul(self.X, other.Y), fmul(self.Y, other.X))
    IN  Pt(fmul(x_1, fsub(ZZ, dTT)),
           fmul(fsub(YY, aXX), fadd(ZZ, dTT)),
           fmul(fsub(ZZ, dTT), fadd(ZZ, dTT)),
           fmul(fsub(YY, aXX), x_1))

add(self, other) ==
    LET aXX == fmul(self.X, other.X)
        dTT == fmul(fmul(EDWARDS_D, self.T), other.T)
        ZZ  == fmul(self.Z, other.Z)
        YY  == fmul(self.Y, other.Y)
        X3  == LET x_1 == fadd(fmul(self.X, other.Y), fmul(self.Y, other.X))
                   x_2 == fsub(ZZ, dTT)
               IN  fmul(x_1, x_2)
        Y3  == LET y_1 == fsub(YY, aXX)
                   y_2 == fadd(ZZ, dTT)
               IN  fmul(y_1, y_2)
        T3  == LET t_1 == fsub(YY, aXX)
                   t_2 == fadd(fmul(self.X, other.Y), fmul(self.Y, other.X))
               IN  fmul(t_1, t_2)
        Z3  == fmul(fsub(ZZ, dTT), fadd(ZZ, dTT))
    IN  Pt(X3, Y3, Z3, T3)

double(self) == add(self, self)

negate(self) == Pt(fneg(self.X), self.Y, self.Z, fneg(self.T))

sub(self, other) == add(self, negate(other))

\* torque negating T instead of Y, as negate does.
torque_as_negate(self) == Pt(fneg(self.X), self.Y, self.Z, fneg(self.T))

torque(self) == Pt(fneg(self.X), fneg(self.Y), self.Z, self.T)

is_on_curve(self) ==
    LET XY  == fmul(self.X, self.Y)
        ZT  == fmul(self.Z, self.T)
        YY  == square(self.Y)
        XX  == square(self.X)
        ZZ  == square(self.Z)
        TT  == square(self.T)
        lhs == fadd(YY, XX)
        rhs == fadd(ZZ, fmul(TT, EDWARDS_D))
    IN  (XY = ZT) /\ (lhs = rhs)

\* AffinePoint and AffinePoint::to_extended (crate::curve::edwards::affine).
Affine(x, y) == [x |-> x, y |-> y]

to_extended(a) == Pt(a.x, a.y, ONE, fmul(a.x, a.y))

to_affine(self) ==
    LET INV_Z == invert(self.Z)
    IN  Affine(fmul(self.X, INV_Z), fmul(self.Y, INV_Z))


(***************************************************************************)
(* The isogeny bridge.  edwards_isogeny is extended.rs; the twisted curve  *)
(* (-x^2 + y^2 = 1 + (d-1) x^2 y^2), its addition, its dual isogeny and    *)
(* variable_base are crate::curve::twedwards and crate::curve::scalar_mul. *)
(***************************************************************************)
\* edwards_isogeny with the sign of a*x^2 in the x denominator flipped.
edwards_isogeny_denominator_slip(self, a) ==
    LET affine == to_affine(self)
        x == affine.x
        y == affine.y
        xy == fmul(x, y)
        x_numerator == fadd(xy, xy)
        x_denom == fadd(square(y), fmul(a, square(x)))
        new_x == fmul(x_numerator, invert(x_denom))
        y_numerator == fadd(square(y), fmul(a, square(x)))
        y_denom == fsub(fsub(fadd(ONE, ONE), square(y)), fmul(a, square(x)))
        new_y == fmul(y_numerator, invert(y_denom))
    IN  Pt(new_x, new_y, ONE, fmul(new_x, new_y))

edwards_isogeny(self, a) ==
    LET affine == to_affine(self)
        x == affine.x
        y == affine.y
        xy == fmul(x, y)
        x_numerator == fadd(xy, xy)
        x_denom == fsub(square(y), fmul(a, square(x)))
        new_x == fmul(x_numerator, invert(x_denom))
        y_numerator == fadd(square(y), fmul(a, square(x)))
        y_denom == fsub(fsub(fadd(ONE, ONE), square(y)), fmul(a, square(x)))
        new_y == fmul(y_numerator, invert(y_denom))
    IN  Pt(new_x, new_y, ONE, fmul(new_x, new_y))

to_twisted(self) == edwards_isogeny(self, ONE)

MINUS_ONE == fneg(ONE)

TWISTED_D == fsub(EDWARDS_D, ONE)

TW_IDENTITY == Pt(ZERO, ONE, ONE, ZERO)

\* The unified addition of the twisted curve (a = -1).
tw_add(self, other) ==
    LET A == fmul(self.X, other.X)
        B == fmul(self.Y, other.Y)
        C == fmul(fmul(TWISTED_D, self.T), other.T)
        D == fmul(self.Z, other.Z)
        E == fadd(fmul(self.X, other.Y), fmul(self.Y, other.X))
        F == fsub(D, C)
        G == fadd(D, C)
        H == fadd(B, A)
    IN  Pt(fmul(E, F), fmul(G, H), fmul(F, G), fmul(E, H))

\* The dual isogeny: the same map with a = -1, on the twisted point.
to_untwisted(self) == edwards_isogeny(self, MINUS_ONE)

\* Scalar multiplication on the twisted curve: scalar times point.
RECURSIVE variable_base(_, _)
variable_base(point, scalar) ==
    IF scalar = 0 THEN TW_IDENTITY
    ELSE tw_add(variable_base(point, scalar - 1), point)

(***************************************************************************)
(* Scalar: integers modulo the order l of the prime subgroup.              *)
(***************************************************************************)
BASEPOINT_ORDER == 7

\* The reduced scalars.
Scalars == 0 .. (BASEPOINT_ORDER - 1)

scalar_add(a, b) == (a + b) % BASEPOINT_ORDER

scalar_mul_scalar(a, b) == (a * b) % BASEPOINT_ORDER

\* div_by_four: a shift of the limbs by two bits, no reduction.
div_by_four(scalar) == scalar \div 4

\* scalar[0] & 3: the two low bits of the low limb.
low_two_bits(scalar) == scalar % 4

(***************************************************************************)
(* Scalar multiplication, extended.rs.                                     *)
(***************************************************************************)
\* scalar_mod_four with 3P computed as 2P doubled.
scalar_mod_four_double_slip(self, scalar) ==
    LET s_mod_four == low_two_bits(scalar)
        zero_p  == IDENTITY
        one_p   == self
        two_p   == double(one_p)
        three_p == double(two_p)
        r0 == IDENTITY
        r1 == conditional_assign(r0, zero_p, Choice(s_mod_four = 0))
        r2 == conditional_assign(r1, one_p, Choice(s_mod_four = 1))
        r3 == conditional_assign(r2, two_p, Choice(s_mod_four = 2))
        r4 == conditional_assign(r3, three_p, Choice(s_mod_four = 3))
    IN  r4

scalar_mod_four(self, scalar) ==
    LET s_mod_four == low_two_bits(scalar)
        zero_p  == IDENTITY
        one_p   == self
        two_p   == double(one_p)
        three_p == add(two_p, self)
        r0 == IDENTITY
        r1 == conditional_assign(r0, zero_p, Choice(s_mod_four = 0))
        r2 == conditional_assign(r1, one_p, Choice(s_mod_four = 1))
        r3 == conditional_assign(r2, two_p, Choice(s_mod_four = 2))
        r4 == conditional_assign(r3, three_p, Choice(s_mod_four = 3))
    IN  r4

\* scalar_mul that drops the (scalar mod 4) * P term.
scalar_mul_without_residue(self, scalar) ==
    LET scalar_div_four == div_by_four(scalar)
    IN  to_untwisted(variable_base(to_twisted(self), scalar_div_four))

scalar_mul(self, scalar) ==
    LET scalar_div_four == div_by_four(scalar)
        partial_result ==
            to_untwisted(variable_base(to_twisted(self), scalar_div_four))
    IN  add(partial_result, scalar_mod_four(self, scalar))

is_torsion_free(self) == ct_eq(scalar_mul(self, BASEPOINT_ORDER), IDENTITY)

(***************************************************************************)
(* What scalar_mul executes.  A step is the operation performed, the       *)
(* places it reads (a place is a variable, with its index when it is       *)
(* indexed) and, for a conditional assignment, the Choice passed to it.    *)
(* A branch taken or skipped shows as steps present or absent, an index    *)
(* computed from data as a place that changes.                             *)
(***************************************************************************)
Step(op, reads) == [op |-> op, reads |-> reads, choice |-> {}]

ChoiceStep(op, reads, choice) == [op |-> op, reads |-> reads, choice |-> {choice}]

\* scalar_mod_four that returns as soon as it knows the residue is zero, and
\* otherwise reads the candidate from a table at the residue.
scalar_mod_four_steps_branching(self, scalar) ==
    LET s_mod_four == low_two_bits(scalar)
        head == << Step("index", <<"scalar", 0>>), Step("and", <<"scalar[0]", 3>>) >>
    IN  IF s_mod_four = 0 THEN head
        ELSE head \o << Step("clone", <<"self">>),
                        Step("double", <<"one_p">>),
                        Step("add", <<"two_p", "self">>),
                        Step("index", <<"table", s_mod_four>>) >>

scalar_mod_four_steps(self, scalar) ==
    LET s_mod_four == low_two_bits(scalar)
    IN  << Step("index", <<"scalar", 0>>),
           Step("and", <<"scalar[0]", 3>>),
           Step("clone", <<"self">>),
           Step("double", <<"one_p">>),
           Step("add", <<"two_p", "self">>),
           ChoiceStep("conditional_assign", <<"result", "zero_p">>,
                      Choice(s_mod_four = 0)),
           ChoiceStep("conditional_assign", <<"result", "one_p">>,
                      Choice(s_mod_four = 1)),
           ChoiceStep("conditional_assign", <<"result", "two_p">>,
                      Choice(s_mod_four = 2)),
           ChoiceStep("conditional_assign", <<"result", "three_p">>,
                      Choice(s_mod_four = 3)) >>

\* variable_base is one step: the ladder is constant-time by its contract.
scalar_mul_steps(self, scalar) ==
    << Step("clone", <<"scalar">>),
       Step("div_by_four", <<"scalar_div_four">>),
       Step("to_twisted", <<"self">>),
       Step("variable_base", <<"to_twisted", "scalar_div_four">>),
       Step("to_untwisted", <<"variable_base">>) >>
    \o scalar_mod_four_steps(self, scalar)
    \o << Step("add", <<"partial_result", "scalar_mod_four">>) >>

\* The control flow and the memory places of a run: its steps without the
\* Choice values.
control_flow(steps) ==
    [i \in 1 .. Len(steps) |-> [op |-> steps[i].op, reads |-> steps[i].reads]]

\* The Choice values of a run, in order.
choices(steps) ==
    LET conditional == SelectSeq(steps, LAMBDA st : st.choice # {})
    IN  [i \in 1 .. Len(conditional) |-> CHOOSE c \in conditional[i].choice : TRUE]

\* GOLDILOCKS_BASE_POINT: a generator of the prime-order subgroup.
GENERATOR == to_extended(Affine(8, 17))

(***************************************************************************)
(* Compression.  A CompressedEdwardsY is the 56 bytes of y, held here as   *)
(* the little-endian number they spell, and the last byte.                 *)
(***************************************************************************)
\* The width of the y bytes in bits: the width of the field modulus.
Y_BITS == 5

YBytes == 0 .. (2 ^ Y_BITS - 1)

Bytes == 0 .. 255

CompressedEdwardsY(y_bytes, last) == [y |-> y_bytes, last |-> last]

Encodings == [y : YBytes, last : Bytes]

\* FieldElement::from_bytes: little-endian, no range check; arithmetic reduces.
from_bytes(y_bytes) == y_bytes % FIELD_MODULUS

\* FieldElement::to_bytes: the canonical (fully reduced) little-endian bytes.
to_bytes(a) == a

\* FieldElement::sqrt_ratio(u, v) for p = 3 (mod 4): u * (u v)^((p-3)/4), and
\* whether u/v is a square.
sqrt_ratio(u, v) ==
    LET x == fmul(u, v)
        inv_sqrt_x == fpow(x, (FIELD_MODULUS - 3) \div 4)
        is_res == Choice(fmul(square(inv_sqrt_x), x) = ONE)
        zero_u == Choice(u = ZERO)
    IN  [x |-> fmul(inv_sqrt_x, u),
         is_res |-> IF zero_u = 1 \/ is_res = 1 THEN 1 ELSE 0]

CtOption(value, is_some) == [value |-> value, is_some |-> is_some]

\* decompress that returns its point whether or not the root exists.
decompress_unchecked(self) ==
    LET sign == self.last
        y == from_bytes(self.y)
        yy == square(y)
        dyy == fmul(EDWARDS_D, yy)
        numerator == fsub(ONE, yy)
        denominator == fsub(ONE, dyy)
        root == sqrt_ratio(numerator, denominator)
        compressed_sign_bit == sign \div 128
        isneg == is_negative(root.x)
        x == conditional_negate(root.x, (compressed_sign_bit + isneg) % 2)
    IN  CtOption(to_extended(Affine(x, y)), 1)

decompress(self) ==
    LET sign == self.last
        y_bytes == self.y
        y == from_bytes(y_bytes)
        yy == square(y)
        dyy == fmul(EDWARDS_D, yy)
        numerator == fsub(ONE, yy)
        denominator == fsub(ONE, dyy)
        root == sqrt_ratio(numerator, denominator)
        compressed_sign_bit == sign \div 128
        isneg == is_negative(root.x)
        x == conditional_negate(root.x, (compressed_sign_bit + isneg) % 2)
    IN  CtOption(to_extended(Affine(x, y)), root.is_res)

\* compress that stores the sign in bit 0 of the last byte, not bit 7.
compress_unshifted_sign(self) ==
    LET affine == to_affine(self)
        sign == is_negative(affine.x)
    IN  CompressedEdwardsY(to_bytes(affine.y), sign)

compress(self) ==
    LET affine == to_affine(self)
        affine_x == affine.x
        affine_y == affine.y
        sign == is_negative(affine_x)
        y_bytes == to_bytes(affine_y)
    IN  CompressedEdwardsY(y_bytes, (sign * 128) % 256)

(***************************************************************************)
(* Hash to curve and encode to curve (RFC 9380).                           *)
(***************************************************************************)
\* The length in bytes of one block of output key material (U84).
OKM_LEN == 2

\* Result<T, Error>.
Ok(value) == [is_ok |-> TRUE, value |-> value]

Err == [is_ok |-> FALSE, value |-> <<>>]

\* What a call gives its caller: a value, or a panic that unwinds the call.
Returned(value) == [panicked |-> FALSE, value |-> value]

Panicked == [panicked |-> TRUE, value |-> <<>>]

\* ExpandMsg::expand_message of the caller's expander X.  answer is what X
\* makes of (msg, dst): an error, or the bytes of the expansion.  An
\* Expander is those bytes and how many were handed out.
expand_message(answer, len_in_bytes) ==
    IF answer.is_ok
    THEN Ok([buf |-> SubSeq(answer.value, 1, len_in_bytes), pos |-> 0])
    ELSE Err

\* Expander::fill_bytes: the next n bytes, and the expander after them.
fill_bytes(expander, n) ==
    [data |-> SubSeq(expander.buf, expander.pos + 1, expander.pos + n),
     expander |-> [expander EXCEPT !.pos = expander.pos + n]]

\* FieldElement::from_okm: the bytes as a big-endian number, reduced.
RECURSIVE from_okm(_)
from_okm(data) ==
    IF Len(data) = 0 THEN 0
    ELSE (from_okm(SubSeq(data, 1, Len(data) - 1)) * 256 + data[Len(data)])
           % FIELD_MODULUS

\* curve448: v^2 = u^3 + J u^2 + u with J = 2 - 4d (156326), and Z = -1.
MONTGOMERY_J == fsub(fadd(ONE, ONE), fmul(4, EDWARDS_D))

is_square(a) == a = ZERO \/ fpow(a, (FIELD_MODULUS - 1) \div 2) = ONE

sqrt(a) == fpow(a, (FIELD_MODULUS + 1) \div 4)

\* RFC 9380, 6.7.1 / F.3 with Z = -1.
map_to_curve_elligator2(u) ==
    LET t1a == fmul(MINUS_ONE, square(u))
        e1  == t1a = MINUS_ONE
        t1  == IF e1 THEN ZERO ELSE t1a
        x1  == fmul(fneg(MONTGOMERY_J), invert(fadd(t1, ONE)))
        gx1 == fmul(fadd(fmul(fadd(x1, MONTGOMERY_J), x1), ONE), x1)
        x2  == fsub(fneg(x1), MONTGOMERY_J)
        gx2 == fmul(t1, gx1)
        e2  == is_square(gx1)
        x   == IF e2 THEN x1 ELSE x2
        y2  == IF e2 THEN gx1 ELSE gx2
        y   == sqrt(y2)
        e3  == (y % 2) = 1
    IN  Affine(x, IF e2 # e3 THEN fneg(y) ELSE y)

\* The 4-isogeny from curve448 to edwards448 (RFC 7748, 4.2); where it is
\* undefined (a zero denominator) the result is the identity (RFC 9380, G.2.4).
iso448(m) ==
    LET u == m.x
        v == m.y
        t0 == fsub(square(u), ONE)
        t2 == fmul(2, square(v))
        xNum == fmul(4, fmul(v, t0))
        xDen == fadd(square(t0), fadd(t2, t2))
        t5 == fmul(square(t0), u)
        yNum == fsub(fmul(t2, fmul(2, u)), t5)
        yDen == fsub(t5, fmul(fadd(square(u), ONE), t2))
    IN  IF fmul(xDen, yDen) = ZERO THEN Affine(ZERO, ONE)
        ELSE Affine(fmul(xNum, invert(xDen)), fmul(yNum, invert(yDen)))

\* hash that reads the first block twice: the expander is not advanced.
hash_same_block(answer) ==
    LET expanded == expand_message(answer, OKM_LEN * 2)
    IN  IF ~ expanded.is_ok THEN Panicked
        ELSE
        LET expander == expanded.value
            f0 == fill_bytes(expander, OKM_LEN)
            u0 == from_okm(f0.data)
            f1 == fill_bytes(expander, OKM_LEN)
            u1 == from_okm(f1.data)
            q0 == iso448(map_to_curve_elligator2(u0))
            q1 == iso448(map_to_curve_elligator2(u1))
            cofactor == 4
        IN  Returned(scalar_mul(add(to_extended(q0), to_extended(q1)), cofactor))

\* expand_message(..).unwrap() panics on an error of the expander.
hash(answer) ==
    LET expanded == expand_message(answer, OKM_LEN * 2)
    IN  IF ~ expanded.is_ok THEN Panicked
        ELSE
        LET expander == expanded.value
            f0 == fill_bytes(expander, OKM_LEN)
            u0 == from_okm(f0.data)
            f1 == fill_bytes(f0.expander, OKM_LEN)
            u1 == from_okm(f1.data)
            q0 == iso448(map_to_curve_elligator2(u0))
            q1 == iso448(map_to_curve_elligator2(u1))
            cofactor == 4
        IN  Returned(scalar_mul(add(to_extended(q0), to_extended(q1)), cofactor))

encode(answer) ==
    LET expanded == expand_message(answer, OKM_LEN)
    IN  IF ~ expanded.is_ok THEN Panicked
        ELSE
        LET expander == expanded.value
            f0 == fill_bytes(expander, OKM_LEN)
            u0 == from_okm(f0.data)
            q0 == iso448(map_to_curve_elligator2(u0))
            cofactor == 4
        IN  Returned(scalar_mul(to_extended(q0), cofactor))

(***************************************************************************)
(* The caller's operands.                                                  *)
(***************************************************************************)
\* The valid points: the tuples is_on_curve accepts, with 1 <= Z <= MaxZ.
InputPoints ==
    UNION {IF is_on_curve(pt) THEN {pt} ELSE {} :
             pt \in [X : Field, Y : Field, Z : 1 .. MaxZ, T : Field]}

\* What decompress returns over all encodings.
Decompressed ==
    UNION {IF decompress(b).is_some = 1 THEN {decompress(b).value} ELSE {} :
             b \in Encodings}

StartPoints == {IDENTITY, GENERATOR} \cup Decompressed

NoBytes == CompressedEdwardsY(ONE, 0)

NoOption == CtOption(IDENTITY, 0)

\* Every variable but the operands a specification draws.
Idle ==
    /\ pc = "start"
    /\ out = IDENTITY
    /\ tw = TW_IDENTITY
    /\ enc = NoBytes
    /\ dec = NoOption
    /\ flag = FALSE

(***************************************************************************)
(* Spec: a caller that starts from IDENTITY, GENERATOR and decompressed    *)
(* points and keeps applying the group operations to what it holds.        *)
(***************************************************************************)
Init ==
    /\ Idle
    /\ p \in StartPoints
    /\ q \in StartPoints
    /\ r = IDENTITY /\ s = 0 /\ t = 0 /\ bytes = NoBytes /\ okm = Err

Add ==
    /\ p' = add(p, q)
    /\ UNCHANGED <<pc, q, r, s, t, bytes, okm, out, tw, enc, dec, flag>>

Sub ==
    /\ p' = sub(p, q)
    /\ UNCHANGED <<pc, q, r, s, t, bytes, okm, out, tw, enc, dec, flag>>

Negate ==
    /\ p' = negate(p)
    /\ UNCHANGED <<pc, q, r, s, t, bytes, okm, out, tw, enc, dec, flag>>

Double ==
    /\ p' = double(p)
    /\ UNCHANGED <<pc, q, r, s, t, bytes, okm, out, tw, enc, dec, flag>>

ScalarMul ==
    /\ \E k \in Scalars : p' = scalar_mul(p, k)
    /\ UNCHANGED <<pc, q, r, s, t, bytes, okm, out, tw, enc, dec, flag>>

\* The caller keeps the result as the other operand of what follows.
Keep ==
    /\ q' = p
    /\ UNCHANGED <<pc, p, r, s, t, bytes, okm, out, tw, enc, dec, flag>>

Next == Add \/ Sub \/ Negate \/ Double \/ ScalarMul \/ Keep

Spec == Init /\ [][Next]_vars

(***************************************************************************)
(* SpecReach: the same caller, who may also torque the point it holds.     *)
(***************************************************************************)
Torque ==
    /\ p' = torque(p)
    /\ UNCHANGED <<pc, q, r, s, t, bytes, okm, out, tw, enc, dec, flag>>

NextReach == Add \/ Sub \/ Negate \/ Double \/ ScalarMul \/ Keep \/ Torque

SpecReach == Init /\ [][NextReach]_vars

(***************************************************************************)
(* SpecGroup: the caller draws three valid points and makes one call of    *)
(* add, sub, negate or double.                                             *)
(***************************************************************************)
InitGroup ==
    /\ Idle
    /\ p \in InputPoints
    /\ q \in InputPoints
    /\ r \in InputPoints
    /\ s = 0 /\ t = 0 /\ bytes = NoBytes /\ okm = Err

CallAdd ==
    /\ pc = "start"
    /\ out' = add(p, q)
    /\ pc' = "add"
    /\ UNCHANGED <<p, q, r, s, t, bytes, okm, tw, enc, dec, flag>>

CallSub ==
    /\ pc = "start"
    /\ out' = sub(p, q)
    /\ pc' = "sub"
    /\ UNCHANGED <<p, q, r, s, t, bytes, okm, tw, enc, dec, flag>>

CallNegate ==
    /\ pc = "start"
    /\ out' = negate(p)
    /\ pc' = "negate"
    /\ UNCHANGED <<p, q, r, s, t, bytes, okm, tw, enc, dec, flag>>

CallDouble ==
    /\ pc = "start"
    /\ out' = double(p)
    /\ pc' = "double"
    /\ UNCHANGED <<p, q, r, s, t, bytes, okm, tw, enc, dec, flag>>

NextGroup == CallAdd \/ CallSub \/ CallNegate \/ CallDouble

SpecGroup == InitGroup /\ [][NextGroup]_vars

(***************************************************************************)
(* SpecMul: the caller draws two valid points and two reduced scalars and  *)
(* makes one call of scalar_mul or scalar_mod_four.                        *)
(***************************************************************************)
InitMul ==
    /\ Idle
    /\ p \in InputPoints
    /\ q \in InputPoints
    /\ s \in Scalars
    /\ t \in Scalars
    /\ r = IDENTITY /\ bytes = NoBytes /\ okm = Err

CallScalarMul ==
    /\ pc = "start"
    /\ out' = scalar_mul(p, s)
    /\ pc' = "scalar_mul"
    /\ UNCHANGED <<p, q, r, s, t, bytes, okm, tw, enc, dec, flag>>

CallScalarModFour ==
    /\ pc = "start"
    /\ out' = scalar_mod_four(p, s)
    /\ pc' = "scalar_mod_four"
    /\ UNCHANGED <<p, q, r, s, t, bytes, okm, tw, enc, dec, flag>>

NextMul == CallScalarMul \/ CallScalarModFour

SpecMul == InitMul /\ [][NextMul]_vars

(***************************************************************************)
(* SpecIso: the caller draws a valid point and either sends it through the *)
(* isogeny and back, or asks whether it is torsion free and torques it.    *)
(***************************************************************************)
InitIso ==
    /\ Idle
    /\ p \in InputPoints
    /\ q = IDENTITY /\ r = IDENTITY /\ s = 0 /\ t = 0
    /\ bytes = NoBytes /\ okm = Err

CallToTwisted ==
    /\ pc = "start"
    /\ tw' = to_twisted(p)
    /\ pc' = "to_twisted"
    /\ UNCHANGED <<p, q, r, s, t, bytes, okm, out, enc, dec, flag>>

CallToUntwisted ==
    /\ pc = "to_twisted"
    /\ out' = to_untwisted(tw)
    /\ pc' = "to_untwisted"
    /\ UNCHANGED <<p, q, r, s, t, bytes, okm, tw, enc, dec, flag>>

CallIsTorsionFree ==
    /\ pc = "start"
    /\ flag' = is_torsion_free(p)
    /\ pc' = "is_torsion_free"
    /\ UNCHANGED <<p, q, r, s, t, bytes, okm, out, tw, enc, dec>>

CallTorque ==
    /\ pc = "is_torsion_free"
    /\ out' = torque(p)
    /\ pc' = "torque"
    /\ UNCHANGED <<p, q, r, s, t, bytes, okm, tw, enc, dec, flag>>

NextIso == CallToTwisted \/ CallToUntwisted \/ CallIsTorsionFree \/ CallTorque

SpecIso == InitIso /\ [][NextIso]_vars

(***************************************************************************)
(* SpecCodec: the caller draws a valid point, compresses it and decodes    *)
(* the result; or draws 57 bytes, decodes them and compresses the result.  *)
(***************************************************************************)
InitCodec ==
    /\ Idle
    /\ \/ p \in InputPoints /\ bytes = NoBytes
       \/ p = IDENTITY /\ bytes \in Encodings
    /\ q = IDENTITY /\ r = IDENTITY /\ s = 0 /\ t = 0 /\ okm = Err

CallCompress ==
    /\ \/ /\ pc = "start"
          /\ enc' = compress(p)
          /\ pc' = "compress"
       \/ /\ pc = "decompress"
          /\ dec.is_some = 1
          /\ enc' = compress(dec.value)
          /\ pc' = "decompress_compress"
    /\ UNCHANGED <<p, q, r, s, t, bytes, okm, out, tw, dec, flag>>

CallDecompress ==
    /\ \/ /\ pc = "start"
          /\ dec' = decompress(bytes)
          /\ pc' = "decompress"
       \/ /\ pc = "compress"
          /\ dec' = decompress(enc)
          /\ pc' = "compress_decompress"
    /\ UNCHANGED <<p, q, r, s, t, bytes, okm, out, tw, enc, flag>>

NextCodec == CallCompress \/ CallDecompress

SpecCodec == InitCodec /\ [][NextCodec]_vars

(***************************************************************************)
(* SpecHash: the caller's expander answers for the message and the tag,    *)
(* with an error or with some bytes, and the caller makes one call of hash *)
(* or encode.                                                              *)
(***************************************************************************)
\* The bytes of an expansion are drawn from 0 .. MaxOkmByte.
MaxOkmByte == 7

Expansions == [1 .. (2 * OKM_LEN) -> 0 .. MaxOkmByte]

\* What an expander X: ExpandMsg can answer.
ExpandAnswers == {Err} \cup {Ok(e) : e \in Expansions}

InitHash ==
    /\ Idle
    /\ okm \in ExpandAnswers
    /\ p = IDENTITY /\ q = IDENTITY /\ r = IDENTITY /\ s = 0 /\ t = 0
    /\ bytes = NoBytes

CallHash ==
    /\ pc = "start"
    /\ LET result == hash(okm)
       IN  IF result.panicked
           THEN pc' = "panic" /\ out' = out
           ELSE pc' = "hash" /\ out' = result.value
    /\ UNCHANGED <<p, q, r, s, t, bytes, okm, tw, enc, dec, flag>>

CallEncode ==
    /\ pc = "start"
    /\ LET result == encode(okm)
       IN  IF result.panicked
           THEN pc' = "panic" /\ out' = out
           ELSE pc' = "encode" /\ out' = result.value
    /\ UNCHANGED <<p, q, r, s, t, bytes, okm, tw, enc, dec, flag>>

NextHash == CallHash \/ CallEncode

SpecHash == InitHash /\ [][NextHash]_vars

(***************************************************************************)
(* SpecTotal: the caller holds any tuple of field elements, on the curve   *)
(* or not, with Z = 0 or not, and makes one call of an operation that has  *)
(* no error result; or it makes one call of hash or encode.                *)
(***************************************************************************)
\* Every tuple with Z = 0, and the valid points.
AnyPoints == [X : Field, Y : Field, Z : {ZERO}, T : Field] \cup InputPoints

InitTotal ==
    /\ Idle
    /\ \/ /\ p \in AnyPoints
          /\ q \in {GENERATOR, Pt(ZERO, ZERO, ZERO, ZERO)}
          /\ s \in Scalars
          /\ okm = Err
       \/ /\ p = IDENTITY /\ q = IDENTITY /\ s = 0
          /\ okm \in ExpandAnswers
    /\ r = IDENTITY /\ t = 0 /\ bytes = NoBytes

TotalAdd ==
    /\ pc = "start"
    /\ out' = add(p, q)
    /\ pc' = "add"
    /\ UNCHANGED <<p, q, r, s, t, bytes, okm, tw, enc, dec, flag>>

TotalDouble ==
    /\ pc = "start"
    /\ out' = double(p)
    /\ pc' = "double"
    /\ UNCHANGED <<p, q, r, s, t, bytes, okm, tw, enc, dec, flag>>

TotalNegate ==
    /\ pc = "start"
    /\ out' = negate(p)
    /\ pc' = "negate"
    /\ UNCHANGED <<p, q, r, s, t, bytes, okm, tw, enc, dec, flag>>

TotalScalarMul ==
    /\ pc = "start"
    /\ out' = scalar_mul(p, s)
    /\ pc' = "scalar_mul"
    /\ UNCHANGED <<p, q, r, s, t, bytes, okm, tw, enc, dec, flag>>

TotalSelect ==
    /\ pc = "start"
    /\ out' = conditional_select(p, q, low_two_bits(s) % 2)
    /\ pc' = "conditional_select"
    /\ UNCHANGED <<p, q, r, s, t, bytes, okm, tw, enc, dec, flag>>

TotalCompress ==
    /\ pc = "start"
    /\ enc' = compress(p)
    /\ pc' = "compress"
    /\ UNCHANGED <<p, q, r, s, t, bytes, okm, out, tw, dec, flag>>

TotalHash ==
    /\ pc = "start"
    /\ LET result == hash(okm)
       IN  IF result.panicked
           THEN pc' = "panic" /\ out' = out
           ELSE pc' = "hash" /\ out' = result.value
    /\ UNCHANGED <<p, q, r, s, t, bytes, okm, tw, enc, dec, flag>>

TotalEncode ==
    /\ pc = "start"
    /\ LET result == encode(okm)
       IN  IF result.panicked
           THEN pc' = "panic" /\ out' = out
           ELSE pc' = "encode" /\ out' = result.value
    /\ UNCHANGED <<p, q, r, s, t, bytes, okm, tw, enc, dec, flag>>

NextTotal ==
    \/ TotalAdd \/ TotalDouble \/ TotalNegate \/ TotalScalarMul
    \/ TotalSelect \/ TotalCompress \/ TotalHash \/ TotalEncode

SpecTotal == InitTotal /\ [][NextTotal]_vars

(***************************************************************************)
(* SpecEq: the caller draws three tuples with Z # 0, valid points or not,  *)
(* and compares the first two, or asks whether the first is the identity.  *)
(***************************************************************************)
\* Small tuples with Z # 0, most of them off the curve.
ProjectiveTuples == [X : 0 .. MaxZ, Y : 0 .. MaxZ, Z : 1 .. MaxZ, T : {ZERO}]

InitEq ==
    /\ Idle
    /\ p \in InputPoints \cup ProjectiveTuples
    /\ q \in InputPoints \cup ProjectiveTuples
    /\ r \in {pt \in InputPoints : pt.Z = MaxZ}
    /\ s = 0 /\ t = 0 /\ bytes = NoBytes /\ okm = Err

CallCtEq ==
    /\ pc = "start"
    /\ flag' = ct_eq(p, q)
    /\ pc' = "ct_eq"
    /\ UNCHANGED <<p, q, r, s, t, bytes, okm, out, tw, enc, dec>>

CallIsIdentity ==
    /\ pc = "start"
    /\ flag' = is_identity(p)
    /\ pc' = "is_identity"
    /\ UNCHANGED <<p, q, r, s, t, bytes, okm, out, tw, enc, dec>>

NextEq == CallCtEq \/ CallIsIdentity

SpecEq == InitEq /\ [][NextEq]_vars

(***************************************************************************)
(* Reference notions the claims are stated with.                           *)
(***************************************************************************)
\* The n-fold sum P + ... + P, from IDENTITY.
RECURSIVE sum_of(_, _)
sum_of(point, n) == IF n = 0 THEN IDENTITY ELSE add(sum_of(point, n - 1), point)

\* {IDENTITY, P, 2P, 3P}, indexed from 1.
ResidueTable(point) ==
    <<IDENTITY, point, add(point, point), add(add(point, point), point)>>

\* The prime-order subgroup: the multiples of GENERATOR.
InPrimeOrderSubgroup(point) ==
    \E k \in 0 .. (BASEPOINT_ORDER - 1) : ct_eq(point, sum_of(GENERATOR, k))

\* The same point with all four coordinates multiplied by k.
scaled(point, k) ==
    Pt(fmul(k, point.X), fmul(k, point.Y), fmul(k, point.Z), fmul(k, point.T))

\* The point (0, -1) of order 2.
ORDER_TWO_POINT == Pt(ZERO, MINUS_ONE, ONE, ZERO)

(***************************************************************************)
(* The claims.                                                             *)
(***************************************************************************)
\* C1: for every valid point P and every scalar s in [0, l), scalar_mul(P, s)
\* is the s-fold sum of P; it is to_untwisted(variable_base(to_twisted(P),
\* s div 4)), which is the (4 * (s div 4))-fold sum, plus scalar_mod_four(P, s),
\* which is exactly entry s mod 4 of {IDENTITY, P, 2P, 3P}; [0]P = IDENTITY
\* and [2]P = double(P).
C1_ScalarMulIsRepeatedSum ==
    /\ pc = "scalar_mul" =>
         LET partial_result ==
                 to_untwisted(variable_base(to_twisted(p), s \div 4))
         IN  /\ ct_eq(out, sum_of(p, s))
             /\ ct_eq(partial_result, sum_of(p, 4 * (s \div 4)))
             /\ out = add(partial_result, ResidueTable(p)[(s % 4) + 1])
             /\ (s = 0 => ct_eq(out, IDENTITY))
             /\ (s = 2 => ct_eq(out, double(p)))
    /\ pc = "scalar_mod_four" => out = ResidueTable(p)[(s % 4) + 1]

\* C1 witness: a scalar with quotient 1 and residue 2 multiplies a point of
\* full order 4l given with Z = 2.
C1_Witness ==
    /\ pc = "scalar_mul"
    /\ s \div 4 = 1
    /\ s % 4 = 2
    /\ p.Z = 2
    /\ ~ is_identity(sum_of(p, 2 * BASEPOINT_ORDER))
    /\ ~ is_identity(sum_of(p, 4))

\* C2: from IDENTITY, GENERATOR and the decompressed points, every point the
\* caller holds after any sequence of add, sub, negate, double and scalar_mul
\* satisfies is_on_curve: X*Y = Z*T and Y^2 + X^2 = Z^2 + d*T^2.
C2_ResultsOnCurve ==
    /\ is_on_curve(p)
    /\ is_on_curve(q)
    /\ fmul(p.X, p.Y) = fmul(p.Z, p.T)
    /\ fadd(square(p.Y), square(p.X))
         = fadd(square(p.Z), fmul(EDWARDS_D, square(p.T)))

\* C2 witness: both operands are results of operations, not start points.
C2_Witness ==
    /\ p \notin StartPoints
    /\ q \notin StartPoints
    /\ p.Z # ONE
    /\ q.Z # ONE
    /\ ~ ct_eq(p, q)
    /\ ~ is_torsion_free(p)

\* C3: on valid points add is commutative and associative, IDENTITY is
\* neutral on both sides and negate gives the inverse, under ==.
C3_GroupLaws ==
    /\ pc = "add" =>
         /\ ct_eq(out, add(q, p))
         /\ ct_eq(add(out, r), add(p, add(q, r)))
         /\ (q = IDENTITY => ct_eq(out, p))
         /\ (p = IDENTITY => ct_eq(out, q))
         /\ (q = negate(p) => ct_eq(out, IDENTITY))
    /\ pc = "negate" => ct_eq(add(p, out), IDENTITY)

\* C3 witness: three distinct points, none the identity, were added.
C3_Witness ==
    /\ pc = "add"
    /\ ~ ct_eq(p, q) /\ ~ ct_eq(q, r) /\ ~ ct_eq(p, r)
    /\ ~ is_identity(p) /\ ~ is_identity(q) /\ ~ is_identity(r)
    /\ p.Z # ONE
    /\ r.Z # ONE
    /\ ~ is_identity(add(out, r))

\* C4: for every valid point P, decompress(compress(P)) is present and the
\* decoded point equals P.
C4_CompressDecompress ==
    pc = "compress_decompress" => dec.is_some = 1 /\ ct_eq(dec.value, p)

\* C4 witness: a point given with Z = 2 whose x is negative went through
\* compress and decompress.
C4_Witness ==
    /\ pc = "compress_decompress"
    /\ p.Z = 2
    /\ is_negative(to_affine(p).x) = 1
    /\ enc.last = 128
    /\ dec.value # p

\* C5: for every byte string b that decompress accepts, compressing the
\* decoded point gives b back, byte for byte.
C5_DecompressCompressExact ==
    pc = "decompress_compress" => enc = bytes

\* C6: decompress returns an empty option exactly when
\* (1 - y^2) / (1 - d*y^2) is not a square, y being parsed from the bytes;
\* when it succeeds the point is (x, y, 1, x*y) with
\* x^2 * (1 - d*y^2) = 1 - y^2; y = 1 with sign 0 decodes to (0, 1).
C6_DecompressFailsOnlyOnNonSquare ==
    pc = "decompress" =>
        LET y == from_bytes(bytes.y)
            num == fsub(ONE, square(y))
            den == fsub(ONE, fmul(EDWARDS_D, square(y)))
            ratio == fmul(num, invert(den))
            x == dec.value.X
        IN  /\ dec.is_some \in {0, 1}
            /\ dec.is_some = 0 <=> ~ (\E w \in Field : square(w) = ratio)
            /\ dec.is_some = 1 =>
                 /\ dec.value = Pt(x, y, ONE, fmul(x, y))
                 /\ fmul(square(x), den) = num
            /\ (bytes.y = 1 /\ bytes.last \div 128 = 0) =>
                 (dec.is_some = 1 /\ dec.value = Pt(ZERO, ONE, ONE, ZERO))

\* C6 witness: an encoding whose y admits no x was refused.
C6_Witness ==
    /\ pc = "decompress"
    /\ dec.is_some = 0
    /\ bytes.y < FIELD_MODULUS
    /\ bytes.last = 0

\* C7: for all valid points P, to_untwisted(to_twisted(P)) == double(double(P)).
C7_IsogenyRoundTripIsTimesFour ==
    pc = "to_untwisted" => ct_eq(out, double(double(p)))

\* C7 witness: a point of full order 4l given with Z = 2 went through both
\* isogenies.
C7_Witness ==
    /\ pc = "to_untwisted"
    /\ p.Z = 2
    /\ ~ is_identity(sum_of(p, 2 * BASEPOINT_ORDER))
    /\ ~ is_identity(sum_of(p, 4))
    /\ ~ is_identity(out)

\* C8 as stated: for all valid points P, Q, in or out of the prime-order
\* subgroup, and all scalars s, t, with s+t and s*t reduced mod l:
\* [s](P + Q) = [s]P + [s]Q, [s+t]P = [s]P + [t]P, [s*t]P = [s]([t]P).
C8_ScalarLawsOnAllPoints ==
    pc = "scalar_mul" =>
        /\ ct_eq(scalar_mul(add(p, q), s), add(out, scalar_mul(q, s)))
        /\ ct_eq(scalar_mul(p, scalar_add(s, t)), add(out, scalar_mul(p, t)))
        /\ ct_eq(scalar_mul(p, scalar_mul_scalar(s, t)),
                 scalar_mul(scalar_mul(p, t), s))

\* C8 amended: [s](P + Q) = [s]P + [s]Q for all valid points P, Q and all
\* scalars s; [s+t]P = [s]P + [t]P and [s*t]P = [s]([t]P) for all scalars
\* s, t when P is torsion free, and for any valid P when the integer s + t,
\* respectively s * t, is below l (the reduction mod l changes nothing).
C8_ScalarLaws ==
    pc = "scalar_mul" =>
        /\ ct_eq(scalar_mul(add(p, q), s), add(out, scalar_mul(q, s)))
        /\ (is_torsion_free(p) \/ s + t < BASEPOINT_ORDER) =>
             ct_eq(scalar_mul(p, scalar_add(s, t)), add(out, scalar_mul(p, t)))
        /\ (is_torsion_free(p) \/ s * t < BASEPOINT_ORDER) =>
             ct_eq(scalar_mul(p, scalar_mul_scalar(s, t)),
                   scalar_mul(scalar_mul(p, t), s))

\* C8 witness: a torsion-free point, not the identity, is multiplied by
\* scalars whose sum and product both wrap around l.
C8_Witness ==
    /\ pc = "scalar_mul"
    /\ is_torsion_free(p)
    /\ ~ is_identity(p)
    /\ ~ is_torsion_free(q)
    /\ s + t > BASEPOINT_ORDER
    /\ s * t > BASEPOINT_ORDER
    /\ p.Z = 2

\* C9: hash returns [4](Q0 + Q1) and encode returns [4]Q0, Q0 and Q1 being
\* the iso448 images of Elligator2 at the field elements of the first and
\* the second block of one expansion; the result is on the curve and
\* torsion free.
C9_HashIsCofactorTimesSum ==
    LET u0 == from_okm(SubSeq(okm.value, 1, OKM_LEN))
        u1 == from_okm(SubSeq(okm.value, OKM_LEN + 1, 2 * OKM_LEN))
        Q0 == to_extended(iso448(map_to_curve_elligator2(u0)))
        Q1 == to_extended(iso448(map_to_curve_elligator2(u1)))
    IN  /\ pc = "hash" =>
             /\ ct_eq(out, sum_of(add(Q0, Q1), 4))
             /\ is_on_curve(out)
             /\ is_torsion_free(out)
        /\ pc = "encode" =>
             /\ ct_eq(out, sum_of(Q0, 4))
             /\ is_on_curve(out)
             /\ is_torsion_free(out)

\* C9 witness: the two blocks give different points and the hash is not the
\* identity.
C9_Witness ==
    /\ pc = "hash"
    /\ ~ ct_eq(to_extended(iso448(map_to_curve_elligator2(
                 from_okm(SubSeq(okm.value, 1, OKM_LEN))))),
               to_extended(iso448(map_to_curve_elligator2(
                 from_okm(SubSeq(okm.value, OKM_LEN + 1, 2 * OKM_LEN))))))
    /\ ~ is_identity(out)

C11_EverythingElseTotal ==
    /\ pc # "panic"
    /\ pc \in {"add", "double", "negate", "scalar_mul", "conditional_select",
               "hash", "encode"} => out \in ExtendedPoints
    /\ pc = "compress" => enc \in Encodings

\* C12: for tuples P, Q with Z # 0, P == Q exactly when X_P/Z_P = X_Q/Z_Q
\* and Y_P/Z_P = Y_Q/Z_Q; so == is reflexive, symmetric and transitive, it
\* does not change when either operand has its four coordinates multiplied
\* by a non-zero field element, and is_identity(P) holds exactly when the
\* affine coordinates of P are (0, 1).
C12_EqualityIsAffine ==
    /\ pc = "ct_eq" =>
         /\ flag <=> (/\ fmul(p.X, invert(p.Z)) = fmul(q.X, invert(q.Z))
                      /\ fmul(p.Y, invert(p.Z)) = fmul(q.Y, invert(q.Z)))
         /\ ct_eq(p, p)
         /\ flag <=> ct_eq(q, p)
         /\ (flag /\ ct_eq(q, r)) => ct_eq(p, r)
         /\ \A k \in Field \ {ZERO} :
              /\ ct_eq(scaled(p, k), q) <=> flag
              /\ ct_eq(p, scaled(q, k)) <=> flag
    /\ pc = "is_identity" =>
         flag <=> (fmul(p.X, invert(p.Z)) = ZERO /\ fmul(p.Y, invert(p.Z)) = ONE)

\* C12 witness: two different tuples of one affine point, not the identity,
\* compared equal.
C12_Witness ==
    /\ pc = "ct_eq"
    /\ flag
    /\ p # q
    /\ p.Z # q.Z
    /\ ~ is_identity(p)
    /\ ct_eq(q, r)

\* C13: for a fixed point P and any two scalars s, s', scalar_mul(P, s) and
\* scalar_mul(P, s') perform the same operations on the same places in the
\* same order; scalar_mod_four always computes IDENTITY, P, 2P and 3P and
\* always makes the same four conditional assignments in the same order;
\* the scalar shows only in the Choice values, of which exactly the one of
\* its residue mod 4 is set, and the result is the candidate assigned under
\* that Choice.
C13_ScalarIndependentControlFlow ==
    pc \in {"scalar_mul", "scalar_mod_four"} =>
        LET mine  == scalar_mod_four_steps(p, s)
            other == scalar_mod_four_steps(p, t)
        IN  /\ control_flow(scalar_mul_steps(p, s))
                 = control_flow(scalar_mul_steps(p, t))
            /\ control_flow(mine) = control_flow(other)
            /\ \A i \in 1 .. Len(mine) :
                 mine[i].op = "index" => mine[i].reads = other[i].reads
            /\ SelectSeq(control_flow(mine),
                         LAMBDA st : st.op \in {"clone", "double", "add"})
                 = << [op |-> "clone", reads |-> <<"self">>],
                      [op |-> "double", reads |-> <<"one_p">>],
                      [op |-> "add", reads |-> <<"two_p", "self">>] >>
            /\ SelectSeq(control_flow(mine),
                         LAMBDA st : st.op = "conditional_assign")
                 = [k \in 1 .. 4 |->
                      [op |-> "conditional_assign",
                       reads |-> <<"result",
                                   <<"zero_p", "one_p", "two_p", "three_p">>[k]>>]]
            /\ choices(mine) = [k \in 1 .. 4 |-> Choice(s % 4 = k - 1)]
            /\ scalar_mod_four(p, s) = ResidueTable(p)[(s % 4) + 1]

\* C13 witness: two runs on one point whose scalars differ in residue and in
\* quotient, so that their Choice values differ.
C13_Witness ==
    /\ pc = "scalar_mul"
    /\ s % 4 # t % 4
    /\ s \div 4 # t \div 4
    /\ choices(scalar_mod_four_steps(p, s)) # choices(scalar_mod_four_steps(p, t))
    /\ ~ is_identity(p)

\* C14: for every encoding that decompress accepts, the recovered x has the
\* sign the encoding asks for, sign(x) = bytes[56] >> 7, x being the
\* sqrt_ratio output negated exactly when its sign differs from that bit.
C14_RecoveredSign ==
    (pc = "decompress" /\ dec.is_some = 1) =>
        LET y == from_bytes(bytes.y)
            root == sqrt_ratio(fsub(ONE, square(y)),
                               fsub(ONE, fmul(EDWARDS_D, square(y)))).x
            compressed_sign_bit == bytes.last \div 128
        IN  /\ is_negative(dec.value.X) = compressed_sign_bit
            /\ dec.value.X = IF is_negative(root) # compressed_sign_bit
                              THEN fneg(root) ELSE root

\* C15: every point reached from IDENTITY, GENERATOR and the accepted
\* decompress outputs by add, sub, double, negate, torque and scalar_mul has
\* Z # 0: the sum of two such points never has a zero denominator, so
\* to_affine divides by a non-zero Z and gives a point of the affine curve.
C15_ReachableZNonZero ==
    /\ p.Z # ZERO
    /\ q.Z # ZERO
    /\ add(p, q).Z # ZERO
    /\ fmul(p.Z, invert(p.Z)) = ONE
    /\ LET a == to_affine(p)
       IN  fadd(square(a.x), square(a.y))
             = fadd(ONE, fmul(EDWARDS_D, fmul(square(a.x), square(a.y))))

\* C15 witness: a torqued result of operations, held with Z other than 1,
\* outside the prime-order subgroup, beside another result.
C15_Witness ==
    /\ p \notin StartPoints
    /\ q \notin StartPoints
    /\ p.Z \notin {ZERO, ONE}
    /\ q.Z \notin {ZERO, ONE}
    /\ torque(p) \notin StartPoints
    /\ ~ is_torsion_free(p)
    /\ ~ ct_eq(p, q)

=============================================================================
